---- MODULE Spec2Model ----
(***************************************************************************)
(* Unity error monitor (src/unity_error_monitor.py): a poll loop that      *)
(* re-reads a JSON log file, deduplicates its entries by a derived         *)
(* identity key, writes a debug artifact for every error-like entry and    *)
(* opens it in an editor.                                                  *)
(*                                                                         *)
(* Strings of the program are modelled as sequences of one-character       *)
(* strings, so that concatenation, slicing and per-character tests are     *)
(* computed as the code computes them.  A log entry is a function from the *)
(* field names present in the JSON object to their values (dict.get with a *)
(* default reads it).  The source file is the external world's: its state  *)
(* is an input of every read.                                              *)
(***************************************************************************)
EXTENDS Integers, Sequences, FiniteSets, TLC

\* ---------------------------------------------------------------- bounds

\* Longest logs collection the external writer puts into the source file.
MaxLogs == 2

\* Longest variable tail of the messages the excerpt is computed for.
MaxTail == 3

\* ------------------------------------------------------ program constants

\* message[:50], line 208
ExcerptLen == 50

\* sys.exit(0), line 325
ExitInterrupt == 0

\* sys.exit(1), line 388
ExitUsage == 1

\* exit status of the interpreter when an exception leaves monitor() uncaught
\* (nothing but KeyboardInterrupt is caught at line 322)
ExitUncaught == 1

\* ---------------------------------------------------------------- strings

sError == <<"E", "r", "r", "o", "r">>
sException == <<"E", "x", "c", "e", "p", "t", "i", "o", "n">>
sAssert == <<"A", "s", "s", "e", "r", "t">>
sUnknown == <<"U", "n", "k", "n", "o", "w", "n">>
sUnknownError == <<"U", "n", "k", "n", "o", "w", "n", " ", "e", "r", "r", "o", "r">>
sUnknownTime == <<"U", "n", "k", "n", "o", "w", "n", " ", "t", "i", "m", "e">>
sNoStack == <<"N", "o", " ", "s", "t", "a", "c", "k", " ", "t", "r", "a", "c", "e", " ", "a", "v", "a", "i", "l", "a", "b", "l", "e">>
sMain == <<"M", "a", "i", "n">>
sAtFoo == <<"a", "t", " ", "F", "o", "o", "(", ")">>

Lower == {"a", "b", "c", "d", "e", "f", "g", "h", "i", "j", "k", "l", "m",
          "n", "o", "p", "q", "r", "s", "t", "u", "v", "w", "x", "y", "z"}
Upper == {"A", "B", "C", "D", "E", "F", "G", "H", "I", "J", "K", "L", "M",
          "N", "O", "P", "Q", "R", "S", "T", "U", "V", "W", "X", "Y", "Z"}
Digit == {"0", "1", "2", "3", "4", "5", "6", "7", "8", "9"}

\* a character outside ASCII that str.isalnum() accepts
OtherAlnum == {"é"}

\* str.isalnum() of one character (line 208)
isalnum(c) == c \in Lower \cup Upper \cup Digit \cup OtherAlnum

Min(a, b) == IF a <= b THEN a ELSE b

\* s[:n]
Prefix(s, n) == SubSeq(s, 1, Min(Len(s), n))

\* mutant of safe_message: isalpha() instead of isalnum(), digits are replaced
safe_message_isalpha(message) ==
  [k \in DOMAIN Prefix(message, ExcerptLen) |->
     IF Prefix(message, ExcerptLen)[k] \in Lower \cup Upper \cup {"é"}
     THEN Prefix(message, ExcerptLen)[k] ELSE "_"]

\* "".join(c if c.isalnum() else "_" for c in message[:50])
safe_message(message) ==
  [k \in DOMAIN Prefix(message, ExcerptLen) |->
     IF isalnum(Prefix(message, ExcerptLen)[k])
     THEN Prefix(message, ExcerptLen)[k] ELSE "_"]

\* f"{log_type}:{message}:{timestamp}"
log_id(log_type, message, timestamp) ==
  log_type \o <<":">> \o message \o <<":">> \o timestamp

\* dict.get(key, default)
Get(d, key, default) == IF key \in DOMAIN d THEN d[key] ELSE default

\* the five locals process_log extracts from an entry
Extract(e) ==
  [log_type    |-> Get(e, "logType", sUnknown),
   message     |-> Get(e, "message", sUnknownError),
   timestamp   |-> Get(e, "timestamp", sUnknownTime),
   stack_trace |-> Get(e, "stackTrace", <<>>),
   scene       |-> Get(e, "scene", sUnknown)]

\* the (logType, message, timestamp) of an entry as process_log sees it
TripleOf(e) == <<Extract(e).log_type, Extract(e).message, Extract(e).timestamp>>

\* the identity key of an entry
KeyOf(e) == log_id(Extract(e).log_type, Extract(e).message, Extract(e).timestamp)

\* mutant of IsActionable: a prefix test instead of an exact match
IsActionable_prefix(log_type) ==
  \E t \in {sError, sException, sAssert} : Prefix(log_type, Len(t)) = t

\* log_type not in ['Error', 'Exception', 'Assert'] is the informational branch
ActionableTypes == {sError, sException, sAssert}
IsActionable(log_type) == log_type \in ActionableTypes

\* mutant of debug_filename: the message goes into the name whole and as it is
debug_filename_whole_message(now, log_type, message) ==
  [now |-> now, log_type |-> log_type, excerpt |-> message]

\* f"{now}_{log_type}_{safe_message}.md"; the name is kept as its three parts
debug_filename(now, log_type, message) ==
  [now |-> now, log_type |-> log_type, excerpt |-> safe_message(message)]

\* the variable parts of the debug_content template
debug_content(log_type, message, stack_trace, scene, timestamp) ==
  [heading   |-> log_type \o <<":", " ">> \o message,
   type      |-> log_type,
   timestamp |-> timestamp,
   scene     |-> scene,
   stack     |-> IF stack_trace # <<>> THEN stack_trace ELSE sNoStack]

\* ------------------------------------------------------------- exceptions

\* mutant of Catches: "except Exception" behaves as a bare except
Catches_bare(clause, exc) ==
  CASE clause = "KeyboardInterrupt" -> exc = "KeyboardInterrupt"
    [] clause = "JSONDecodeError"   -> exc = "JSONDecodeError"
    [] clause = "Exception"         -> TRUE
    [] OTHER                        -> FALSE

\* isinstance(exc, clause) for the classes the program meets: KeyboardInterrupt
\* derives from BaseException, every other one from Exception
Catches(clause, exc) ==
  CASE clause = "KeyboardInterrupt" -> exc = "KeyboardInterrupt"
    [] clause = "JSONDecodeError"   -> exc = "JSONDecodeError"
    [] clause = "Exception"         -> exc # "KeyboardInterrupt"
    [] OTHER                        -> FALSE

\* mutant of read_logs_handlers: only the parse error is caught
read_logs_handlers_json_only == <<"JSONDecodeError">>

\* the except clauses of each function, in textual order
read_logs_handlers == <<"JSONDecodeError", "Exception">>
send_to_cursor_handlers == <<"Exception">>
open_in_cursor_handlers == <<"Exception">>
monitor_handlers == <<"KeyboardInterrupt">>

\* the first clause of a try statement that catches exc, "none" if none does
RECURSIVE FirstCatch(_, _)
FirstCatch(exc, clauses) ==
  IF clauses = <<>> THEN "none"
  ELSE IF Catches(Head(clauses), exc) THEN Head(clauses)
  ELSE FirstCatch(exc, Tail(clauses))

\* ------------------------------------------------------------ the source

\* The entries the external writer chooses from.
\*   eA: an error with every field present
\*   eB: an error with another key, the same log type and the same excerpt "a_b"
\*   eK: another triple with the key of eA, "Error:a:b:c"; its log type is
\*       not a recognised one
\*   eU: only a message (log type and timestamp take their defaults)
eA == [logType |-> sError, message |-> <<"a", ":", "b">>, timestamp |-> <<"c">>,
       stackTrace |-> sAtFoo, scene |-> sMain]
eB == [logType |-> sError, message |-> <<"a", " ", "b">>, timestamp |-> <<"c">>,
       stackTrace |-> <<>>, scene |-> sMain]
eK == [logType |-> sError \o <<":", "a">>, message |-> <<"b">>,
       timestamp |-> <<"c">>]
eU == [message |-> <<"a", " ", "b">>]
Pool == {eA, eB, eK, eU}
Triples == {TripleOf(e) : e \in Pool}

SeqsUpTo(S, n) == UNION {[1..k -> S] : k \in 0..n}

\* States of the source file as read_logs can find it:
\*   absent      os.path.exists is false
\*   unreadable  the path exists, open() or read() raises OSError
\*   malformed   json.load raises JSONDecodeError
\*   notobject   valid JSON whose top level is not an object (data.get fails)
\*   nologs      an object without the key "logs"
\*   nulllogs    an object whose "logs" is null
\*   logs        an object whose "logs" is a list of entry objects
FileStates ==
  {[kind |-> k, logs |-> <<>>] :
     k \in {"absent", "unreadable", "malformed", "notobject", "nologs", "nulllogs"}}
  \cup {[kind |-> "logs", logs |-> l] : l \in SeqsUpTo(Pool, MaxLogs)}

\* the value of `file` while no read of the current cycle has been made
NotRead == [kind |-> "unread", logs |-> <<>>]

\* sys.argv[0], and a path given on the command line
sScript == "unity_error_monitor.py"
sCustom == "custom.json"

\* platform.system()
Systems == {"Darwin", "Linux", "Windows", "Java"}

\* the argv of the subprocess.Popen call of each branch, without the path
Command(sys) ==
  CASE sys = "Darwin"  -> <<"open", "-a", "Cursor">>
    [] sys = "Linux"   -> <<"code">>
    [] sys = "Windows" -> <<"start", "cursor">>
    [] OTHER           -> <<>>

\* ----------------------------------------------------------------- state

VARIABLES
  file,            \* the source file as the read of this cycle found it
  system,          \* platform.system() of the host
  pc,              \* Start, Idle, Reading, Dispatching, Writing, Launching,
                   \* Sleeping, Stopped (sys.exit(0)), Crashed (uncaught
                   \* exception), Exited (sys.exit(1) of main)
  logs,            \* monitor: the list returned by read_logs in this cycle
  i,               \* monitor: position of the for loop in logs (next entry)
  diag,            \* diagnostic printed by the read of this cycle
  processed_logs,  \* self.processed_logs
  artifacts,       \* the debug directory: file name -> content
  clock,           \* the wall-clock second datetime.now() shows
  usedSec,         \* a file name has been derived from the current second
  cur,             \* the send_to_cursor call in progress: <<>> or <<frame>>
  exit,            \* <<>> while running, <<status>> once the process has exited
  interrupted,     \* a KeyboardInterrupt has been delivered
  shutdownNotices, \* times the "Stopped (Ctrl+C)" notice was printed
  dispatched,      \* entries handed to process_log in this cycle, in order
  nWrite,          \* per triple: artifact write attempts
  nLaunch,         \* per triple: calls of open_in_cursor
  nNotice,         \* per triple: informational console notices
  failedWrite,     \* triples whose artifact write failed
  seenBefore,      \* triples of the entries dispatched in earlier cycles
  spawns,          \* the Popen calls that succeeded, in order
  advisories,      \* paths named in a "Please open manually" advisory
  argv,            \* sys.argv
  present,         \* the paths that exist when main runs
  log_file,        \* main: <<>> for None, <<path>> for a string
  usage            \* the usage message has been printed

vars == <<file, system, pc, logs, i, diag, processed_logs, artifacts, clock,
          usedSec, cur, exit, interrupted, shutdownNotices, dispatched, nWrite,
          nLaunch, nNotice, failedWrite, seenBefore, spawns,
          advisories, argv, present, log_file, usage>>

\* the variables of the start-up, which the loop never touches
startup == <<argv, present, log_file, usage>>

\* the variables no step of the monitor itself changes
env == <<file, system>>
\* what the history variables record
hist == <<nWrite, nLaunch, nNotice, failedWrite, spawns>>

NoArtifacts == [n \in {} |-> <<>>]

\* an artifact cut short: open(debug_file, 'w') has truncated it, write() failed
Truncated == [heading |-> <<>>, type |-> <<>>, timestamp |-> <<>>,
              scene |-> <<>>, stack |-> <<>>]

\* mutant of Store: the debug directory is emptied before the file is written
Store_fresh(dir, name, content) == [n \in {name} |-> content]

\* open(debug_file, 'w') followed by f.write(content)
Store(dir, name, content) ==
  [n \in DOMAIN dir \cup {name} |-> IF n = name THEN content ELSE dir[n]]

\* main has taken the source path from the command line and __init__ has
\* run: empty identity set, debug directory present
Init ==
  /\ file = NotRead
  /\ system \in Systems
  /\ pc = "Idle"
  /\ logs = <<>>
  /\ i = 1
  /\ diag = "none"
  /\ processed_logs = {}
  /\ artifacts = NoArtifacts
  /\ clock = 0
  /\ usedSec = FALSE
  /\ cur = <<>>
  /\ exit = <<>>
  /\ interrupted = FALSE
  /\ shutdownNotices = 0
  /\ dispatched = <<>>
  /\ nWrite = [t \in Triples |-> 0]
  /\ nLaunch = [t \in Triples |-> 0]
  /\ nNotice = [t \in Triples |-> 0]
  /\ failedWrite = {}
  /\ seenBefore = {}
  /\ spawns = <<>>
  /\ advisories = {}
  /\ argv = <<sScript, sCustom>>
  /\ present = {}
  /\ log_file = <<sCustom>>
  /\ usage = FALSE

\* --------------------------------------------------------------- control

\* the function whose code runs at each position of the loop
Frame(at) ==
  CASE at = "Reading"   -> "read_logs"
    [] at = "Writing"   -> "send_to_cursor"
    [] at = "Launching" -> "open_in_cursor"
    [] OTHER            -> "monitor"

HandlersOf(frame) ==
  CASE frame = "read_logs"      -> read_logs_handlers
    [] frame = "send_to_cursor" -> send_to_cursor_handlers
    [] frame = "open_in_cursor" -> open_in_cursor_handlers
    [] OTHER                    -> <<>>

\* process_log returns to the for loop of monitor, after printing `adv`
Return(adv) ==
  /\ pc' = "Dispatching"
  /\ i' = i + 1
  /\ cur' = <<>>
  /\ advisories' = adv
  /\ UNCHANGED <<logs, diag, exit, shutdownNotices>>

\* Where control goes when exc is raised inside `frame`: to the first except
\* clause of the frame that catches it, else to the clause of monitor, else
\* out of the program.
Thrown(exc, frame) ==
  LET c == FirstCatch(exc, HandlersOf(frame)) IN
  IF c # "none" /\ frame = "read_logs"
  THEN \* lines 112-117: print the diagnostic, return []
       /\ logs' = <<>>
       /\ i' = 1
       /\ diag' = (IF c = "JSONDecodeError" THEN "parse" ELSE "read")
       /\ pc' = "Dispatching"
       /\ UNCHANGED <<cur, exit, shutdownNotices, advisories>>
  ELSE IF c # "none" /\ frame = "send_to_cursor"
  THEN \* lines 249-251: report the failure, return without launching
       Return(advisories)
  ELSE IF c # "none" /\ frame = "open_in_cursor"
  THEN \* lines 290-292: advisory naming the artifact path
       Return(advisories \cup {cur[1].debug_file})
  ELSE IF FirstCatch(exc, monitor_handlers) # "none"
  THEN \* lines 322-325: shutdown notice, sys.exit(0)
       /\ pc' = "Stopped"
       /\ exit' = <<ExitInterrupt>>
       /\ shutdownNotices' = shutdownNotices + 1
       /\ cur' = <<>>
       /\ UNCHANGED <<logs, i, diag, advisories>>
  ELSE \* the exception leaves monitor() and main(): traceback, status 1
       /\ pc' = "Crashed"
       /\ exit' = <<ExitUncaught>>
       /\ cur' = <<>>
       /\ UNCHANGED <<logs, i, diag, shutdownNotices, advisories>>

\* --------------------------------------------------------------- actions

\* main calls monitor(): the loop is entered
monitor ==
  /\ pc = "Idle"
  /\ pc' = "Reading"
  /\ UNCHANGED <<file, system, startup, logs, i, diag, processed_logs, artifacts, clock,
                 usedSec, cur, exit, interrupted, shutdownNotices, dispatched,
                 nWrite, nLaunch, nNotice, failedWrite, seenBefore,
                 spawns,
                 advisories>>

\* what the try block of read_logs raises on file state f ("none": it returns)
TryRead(f) ==
  CASE f.kind = "unreadable" -> "OSError"
    [] f.kind = "malformed"  -> "JSONDecodeError"
    [] f.kind = "notobject"  -> "AttributeError"
    [] OTHER                 -> "none"

\* mutant of GetLogs: the collection is returned newest first
GetLogs_reversed(f) ==
  IF f.kind = "logs"
  THEN [k \in 1..Len(f.logs) |-> f.logs[Len(f.logs) + 1 - k]]
  ELSE <<>>

\* data.get("logs", []) of a file the try block reads without raising
GetLogs(f) == IF f.kind = "logs" THEN f.logs ELSE <<>>

\* logs = self.read_logs() with the source file in state f, then the for
\* statement takes iter(logs)
read_file(f) ==
  IF f.kind # "absent" /\ TryRead(f) # "none"
  THEN Thrown(TryRead(f), "read_logs")
  ELSE IF f.kind = "nulllogs"
  THEN \* read_logs returns None; iter(None) raises in monitor
       Thrown("TypeError", "monitor")
  ELSE /\ logs' = GetLogs(f)
       /\ i' = 1
       /\ diag' = "none"
       /\ pc' = "Dispatching"
       /\ UNCHANGED <<cur, exit, shutdownNotices, advisories>>

\* mutant of read_logs: a read that yields nothing also empties the identity
\* set
read_logs_resets ==
  /\ pc = "Reading"
  /\ \E f \in FileStates :
       /\ file' = f
       /\ read_file(f)
       /\ processed_logs' = IF GetLogs(f) = <<>> THEN {} ELSE processed_logs
  /\ UNCHANGED <<system, startup, artifacts, clock, usedSec,
                 interrupted, dispatched, nWrite, nLaunch, nNotice, failedWrite,
                 seenBefore, spawns>>

\* The read of a cycle.  The file is the external writer's and the monitor
\* looks at it only here, so the state the writer has left it in is the
\* input of this step; `file` keeps it for the rest of the cycle.
read_logs ==
  /\ pc = "Reading"
  /\ \E f \in FileStates : file' = f /\ read_file(f)
  /\ UNCHANGED <<system, startup, processed_logs, artifacts, clock, usedSec,
                 interrupted, dispatched, nWrite, nLaunch, nNotice, failedWrite,
                 seenBefore, spawns>>

\* mutant of already_processed: the membership test is lost
already_processed_never(id, seen) == FALSE

\* if log_id in self.processed_logs
already_processed(id, seen) == id \in seen

\* mutant of mark_processed: the set is replaced by the latest identity
mark_processed_latest(seen, id) == {id}

\* self.processed_logs.add(log_id)
mark_processed(seen, id) == seen \cup {id}

\* the locals of send_to_cursor once the name and the content are computed
CallFrame(e, now) ==
  [entry      |-> e,
   debug_file |-> debug_filename(now, Extract(e).log_type, Extract(e).message),
   content    |-> debug_content(Extract(e).log_type, Extract(e).message,
                                Extract(e).stack_trace, Extract(e).scene,
                                Extract(e).timestamp)]

\* mutant of process_log: the identity of an error-like entry is recorded
\* only at the end of its pipeline, not before it
process_log_marks_late ==
  /\ pc = "Dispatching"
  /\ i <= Len(logs)
  /\ dispatched' = Append(dispatched, logs[i])
  /\ IF already_processed(KeyOf(logs[i]), processed_logs)
     THEN /\ Return(advisories)
          /\ UNCHANGED <<processed_logs, nNotice, usedSec>>
     ELSE IF ~IsActionable(Extract(logs[i]).log_type)
     THEN /\ processed_logs' = mark_processed(processed_logs, KeyOf(logs[i]))
          /\ nNotice' = [nNotice EXCEPT ![TripleOf(logs[i])] = @ + 1]
          /\ Return(advisories)
          /\ UNCHANGED usedSec
     ELSE /\ cur' = <<CallFrame(logs[i], clock)>>
          /\ usedSec' = TRUE
          /\ pc' = "Writing"
          /\ UNCHANGED <<logs, i, diag, exit, shutdownNotices,
                         advisories, nNotice, processed_logs>>
  /\ UNCHANGED <<file, system, startup, artifacts, clock, interrupted, nWrite,
                 nLaunch, failedWrite, seenBefore,
                 spawns>>

\* process_log(log_entry) up to the point where the artifact is written
process_log ==
  /\ pc = "Dispatching"
  /\ i <= Len(logs)
  /\ dispatched' = Append(dispatched, logs[i])
  /\ IF already_processed(KeyOf(logs[i]), processed_logs)
     THEN /\ Return(advisories)
          /\ UNCHANGED <<processed_logs, nNotice, usedSec>>
     ELSE /\ processed_logs' = mark_processed(processed_logs, KeyOf(logs[i]))
          /\ IF ~IsActionable(Extract(logs[i]).log_type)
             THEN /\ nNotice' = [nNotice EXCEPT ![TripleOf(logs[i])] = @ + 1]
                  /\ Return(advisories)
                  /\ UNCHANGED usedSec
             ELSE /\ cur' = <<CallFrame(logs[i], clock)>>
                  /\ usedSec' = TRUE
                  /\ pc' = "Writing"
                  /\ UNCHANGED <<logs, i, diag, exit, shutdownNotices,
                                 advisories, nNotice>>
  /\ UNCHANGED <<file, system, startup, artifacts, clock, interrupted, nWrite, nLaunch,
                 failedWrite, seenBefore,
                 spawns>>

\* lines 246-248 succeed
write_ok ==
  /\ pc = "Writing"
  /\ artifacts' = Store(artifacts, cur[1].debug_file, cur[1].content)
  /\ nWrite' = [nWrite EXCEPT ![TripleOf(cur[1].entry)] = @ + 1]
  /\ pc' = "Launching"
  /\ UNCHANGED <<file, system, startup, logs, i, diag, processed_logs, clock, usedSec,
                 cur, exit, interrupted, shutdownNotices, dispatched, nLaunch,
                 nNotice, failedWrite, seenBefore,
                 spawns, advisories>>

\* mutant of write_fails: the return of line 251 is missing, so the launch
\* follows the failed write
write_fails_falls_through ==
  /\ pc = "Writing"
  /\ nWrite' = [nWrite EXCEPT ![TripleOf(cur[1].entry)] = @ + 1]
  /\ failedWrite' = failedWrite \cup {TripleOf(cur[1].entry)}
  /\ pc' = "Launching"
  /\ UNCHANGED <<file, system, startup, logs, i, diag, processed_logs, artifacts, clock,
                 usedSec, cur, exit, interrupted, shutdownNotices, dispatched,
                 nLaunch, nNotice, seenBefore, spawns, advisories>>

\* mutant of write_fails: the identity is taken back when the write fails, so
\* that the entry is tried again when it is read again
write_fails_forgets ==
  /\ pc = "Writing"
  /\ artifacts' = artifacts
  /\ nWrite' = [nWrite EXCEPT ![TripleOf(cur[1].entry)] = @ + 1]
  /\ failedWrite' = failedWrite \cup {TripleOf(cur[1].entry)}
  /\ processed_logs' = processed_logs \ {KeyOf(cur[1].entry)}
  /\ Thrown("OSError", "send_to_cursor")
  /\ UNCHANGED <<file, system, startup, clock, usedSec, interrupted, dispatched, nLaunch,
                 nNotice, seenBefore, spawns>>

\* lines 246-247 raise: in open() (the directory is untouched) or in write()
\* (the file has been created or truncated)
write_fails ==
  /\ pc = "Writing"
  /\ \E where \in {"open", "write"} :
       artifacts' = IF where = "write"
                    THEN Store(artifacts, cur[1].debug_file, Truncated)
                    ELSE artifacts
  /\ nWrite' = [nWrite EXCEPT ![TripleOf(cur[1].entry)] = @ + 1]
  /\ failedWrite' = failedWrite \cup {TripleOf(cur[1].entry)}
  /\ Thrown("OSError", "send_to_cursor")
  /\ UNCHANGED <<file, system, startup, processed_logs, clock, usedSec, interrupted,
                 dispatched, nLaunch, nNotice, seenBefore,
                 spawns>>

\* open_in_cursor on a recognised system, Popen returns
open_spawns ==
  /\ pc = "Launching"
  /\ Command(system) # <<>>
  /\ spawns' = Append(spawns, [cmd |-> Command(system), path |-> cur[1].debug_file])
  /\ nLaunch' = [nLaunch EXCEPT ![TripleOf(cur[1].entry)] = @ + 1]
  /\ Return(advisories)
  /\ UNCHANGED <<file, system, startup, processed_logs, artifacts, clock, usedSec,
                 interrupted, dispatched, nWrite, nNotice, failedWrite,
                 seenBefore>>

\* mutant of open_fails: the try statement of open_in_cursor is missing, so
\* the error of Popen leaves the launcher
open_fails_uncaught ==
  /\ pc = "Launching"
  /\ Command(system) # <<>>
  /\ nLaunch' = [nLaunch EXCEPT ![TripleOf(cur[1].entry)] = @ + 1]
  /\ Thrown("OSError", "monitor")
  /\ UNCHANGED <<file, system, startup, processed_logs, artifacts, clock, usedSec,
                 interrupted, dispatched, nWrite, nNotice, failedWrite,
                 seenBefore,
                 spawns>>

\* open_in_cursor on a recognised system, Popen raises (command not found)
open_fails ==
  /\ pc = "Launching"
  /\ Command(system) # <<>>
  /\ nLaunch' = [nLaunch EXCEPT ![TripleOf(cur[1].entry)] = @ + 1]
  /\ Thrown("OSError", "open_in_cursor")
  /\ UNCHANGED <<file, system, startup, processed_logs, artifacts, clock, usedSec,
                 interrupted, dispatched, nWrite, nNotice, failedWrite,
                 seenBefore,
                 spawns>>

\* open_in_cursor on any other system: lines 288-289, nothing is spawned
open_unsupported ==
  /\ pc = "Launching"
  /\ Command(system) = <<>>
  /\ nLaunch' = [nLaunch EXCEPT ![TripleOf(cur[1].entry)] = @ + 1]
  /\ Return(advisories \cup {cur[1].debug_file})
  /\ UNCHANGED <<file, system, startup, processed_logs, artifacts, clock, usedSec,
                 interrupted, dispatched, nWrite, nNotice, failedWrite,
                 seenBefore,
                 spawns>>

\* mutant of sleep: one entry per cycle, the rest waits for the next read
sleep_after_one ==
  /\ pc = "Dispatching"
  /\ i > Len(logs) \/ i > 1
  /\ pc' = "Sleeping"
  /\ UNCHANGED <<file, system, startup, logs, i, diag, processed_logs, artifacts, clock,
                 usedSec, cur, exit, interrupted, shutdownNotices, dispatched,
                 nWrite, nLaunch, nNotice, failedWrite, seenBefore, spawns,
                 advisories>>

\* the for loop is exhausted: time.sleep(self.check_interval) begins
sleep ==
  /\ pc = "Dispatching"
  /\ i > Len(logs)
  /\ pc' = "Sleeping"
  /\ UNCHANGED <<file, system, startup, logs, i, diag, processed_logs, artifacts, clock,
                 usedSec, cur, exit, interrupted, shutdownNotices, dispatched,
                 nWrite, nLaunch, nNotice, failedWrite, seenBefore,
                 spawns,
                 advisories>>

\* time.sleep returns after at least one second and the loop comes back to
\* line 313; the list of the finished cycle is dead from here on
wake ==
  /\ pc = "Sleeping"
  /\ pc' = "Reading"
  /\ file' = NotRead
  /\ logs' = <<>>
  /\ i' = 1
  /\ diag' = "none"
  /\ dispatched' = <<>>
  /\ seenBefore' = seenBefore \cup {TripleOf(dispatched[k]) : k \in DOMAIN dispatched}
  /\ clock' = IF usedSec THEN clock + 1 ELSE clock
  /\ usedSec' = FALSE
  /\ UNCHANGED <<system, startup, processed_logs, artifacts, cur, exit,
                 interrupted, shutdownNotices, nWrite, nLaunch, nNotice,
                 failedWrite, spawns, advisories>>

\* The wall clock reaches the next second between two entries of one cycle.
\* Seconds from which no file name was derived are indistinguishable and are
\* not counted, which keeps the clock below the number of write attempts.
tick ==
  /\ pc = "Dispatching"
  /\ usedSec
  /\ clock' = clock + 1
  /\ usedSec' = FALSE
  /\ UNCHANGED <<file, system, startup, pc, logs, i, diag, processed_logs, artifacts,
                 cur, exit, interrupted, shutdownNotices, dispatched, nWrite,
                 nLaunch, nNotice, failedWrite, seenBefore,
                 spawns, advisories>>

\* Ctrl+C: KeyboardInterrupt is raised at the point the loop has reached.
\* Inside the with block of send_to_cursor the file may not have been opened
\* yet, may be open and empty, or may be complete.
interrupt ==
  /\ pc \in {"Reading", "Dispatching", "Writing", "Launching", "Sleeping"}
  /\ interrupted' = TRUE
  /\ IF pc = "Writing"
     THEN \E done \in {"nothing", "opened", "written"} :
            artifacts' = CASE done = "nothing" -> artifacts
                           [] done = "opened"  ->
                                Store(artifacts, cur[1].debug_file, Truncated)
                           [] done = "written" ->
                                Store(artifacts, cur[1].debug_file, cur[1].content)
     ELSE artifacts' = artifacts
  /\ Thrown("KeyboardInterrupt", Frame(pc))
  /\ UNCHANGED <<file, system, startup, processed_logs, clock, usedSec, dispatched,
                 nWrite, nLaunch, nNotice, failedWrite, seenBefore,
                 spawns>>

Next ==
  \/ monitor
  \/ read_logs
  \/ process_log
  \/ write_ok
  \/ write_fails
  \/ open_spawns
  \/ open_fails
  \/ open_unsupported
  \/ sleep
  \/ wake
  \/ tick
  \/ interrupt

Spec == Init /\ [][Next]_vars

\* ---------------------------------------------------------------- claims

LoopPositions == {"Reading", "Dispatching", "Writing", "Launching", "Sleeping"}

\* a step of the program itself (not of the clock or the operator)
LoopStep ==
  \/ monitor
  \/ read_logs
  \/ process_log
  \/ write_ok
  \/ write_fails
  \/ open_spawns
  \/ open_fails
  \/ open_unsupported
  \/ sleep
  \/ wake

tA == TripleOf(eA)
tB == TripleOf(eB)
tK == TripleOf(eK)
tU == TripleOf(eU)

\* C1: for every (logType, message, timestamp), however often entries with
\* that triple are read (twice in one read, again in later reads), at most
\* one artifact write is attempted and at most one editor launch is made.
C1_PipelineAtMostOnce ==
  \A t \in Triples : nWrite[t] <= 1 /\ nLaunch[t] <= 1

\* C1 witness: eA was dispatched in an earlier cycle and twice more in the
\* cycle just finished, and its pipeline has fired exactly once.
C1_Witness ==
  /\ pc = "Sleeping"
  /\ dispatched = <<eA, eA>>
  /\ tA \in seenBefore
  /\ nWrite[tA] = 1
  /\ nLaunch[tA] = 1

\* C2: an entry whose log type is not exactly "Error", "Exception" or
\* "Assert" (an unrecognised string, or the default "Unknown" of a missing
\* field) never gets an artifact write or a launch; dispatching it changes
\* nothing but the identity set (by its own key at most) and the count of
\* its console notices (by one at most), and leaves the loop between entries.
C2_InformationalNoPipeline ==
  /\ [](\A e \in Pool :
          Extract(e).log_type \notin {sError, sException, sAssert}
            => nWrite[TripleOf(e)] = 0 /\ nLaunch[TripleOf(e)] = 0)
  /\ [][ ( /\ pc = "Dispatching"
           /\ dispatched' # dispatched
           /\ Extract(logs[i]).log_type \notin {sError, sException, sAssert} )
         => /\ pc' = "Dispatching"
            /\ cur' = <<>>
            /\ UNCHANGED <<artifacts, spawns, advisories, nWrite, nLaunch,
                           failedWrite>>
            /\ processed_logs' \subseteq processed_logs \cup {KeyOf(logs[i])}
            /\ KeyOf(logs[i]) \in processed_logs'
            /\ \A t \in Triples :
                 /\ nNotice[t] <= nNotice'[t]
                 /\ nNotice'[t] <= nNotice[t] + (IF t = TripleOf(logs[i]) THEN 1 ELSE 0)
       ]_vars

\* C2 witness: the entry with the unrecognised type and the entry with the
\* default type have both been dispatched and noticed, nothing was written.
C2_Witness ==
  /\ pc = "Sleeping"
  /\ dispatched = <<eK, eU>>
  /\ nNotice[tK] = 1
  /\ nNotice[tU] = 1
  /\ artifacts = NoArtifacts
  /\ spawns = <<>>

PostRead == pc \in {"Dispatching", "Writing", "Launching", "Sleeping"}

C5_WriteFailureIsLocal ==
  /\ [](\A t \in failedWrite : nLaunch[t] = 0)
  /\ [](pc = "Sleeping" => dispatched = logs)
  /\ [][ (pc = "Writing" /\ failedWrite' # failedWrite)
         => /\ pc' = "Dispatching"
            /\ i' = i + 1
            /\ logs' = logs
            /\ UNCHANGED <<nLaunch, spawns, processed_logs>>
       ]_vars

\* C5 witness: in one cycle the write for eA failed and eB, which comes after
\* it in the same read, got its artifact and its launch.
C5_Witness ==
  /\ pc = "Sleeping"
  /\ dispatched = <<eA, eB>>
  /\ seenBefore = {}
  /\ tA \in failedWrite
  /\ nLaunch[tA] = 0
  /\ tB \notin failedWrite
  /\ nWrite[tB] = 1
  /\ nLaunch[tB] = 1

\* C6 as stated: an entry whose artifact write failed in an earlier cycle and
\* that is in the read of the cycle just finished has been attempted again.
C6_RetriedNextCycle ==
  pc = "Sleeping" =>
    \A k \in DOMAIN logs :
      TripleOf(logs[k]) \in failedWrite \cap seenBefore
        => nWrite[TripleOf(logs[k])] >= 2

\* C6 amended: there is no retry of a failed artifact write.  An entry whose
\* write failed keeps its identity recorded, and its write is never attempted
\* again nor its launch made, however often later cycles read it.
C6_FailedWriteNeverRetried ==
  /\ \A t \in failedWrite : nWrite[t] = 1 /\ nLaunch[t] = 0
  /\ \A e \in Pool : TripleOf(e) \in failedWrite => KeyOf(e) \in processed_logs

\* C6 witness: the write for eA failed in an earlier cycle, eA was read and
\* dispatched again in the cycle just finished, and it still has had one
\* attempt and no artifact.
C6_Witness ==
  /\ pc = "Sleeping"
  /\ dispatched = <<eA>>
  /\ tA \in failedWrite \cap seenBefore
  /\ nWrite[tA] = 1
  /\ artifacts = NoArtifacts

\* C7 as stated: once an artifact has been written in full, no step changes
\* or removes it.
C7_ArtifactsNeverChange ==
  [][\A n \in DOMAIN artifacts :
       artifacts[n] # Truncated
         => n \in DOMAIN artifacts' /\ artifacts'[n] = artifacts[n]]_vars

\* C7 amended: an artifact is never removed, and its content changes only by
\* a later write of the monitor to the same file name (same clock second, log
\* type and excerpt), which replaces it; no other step touches it.
C7_ChangedOnlyBySameNameWrite ==
  [][\A n \in DOMAIN artifacts :
       /\ n \in DOMAIN artifacts'
       /\ artifacts'[n] # artifacts[n]
            => pc = "Writing" /\ n = cur[1].debug_file]_vars

\* C7 witness: the artifact of eA is still as written after eB got an
\* artifact of its own under another name.
C7_Witness ==
  \E n1, n2 \in DOMAIN artifacts :
    /\ n1.now < n2.now
    /\ artifacts[n1] = CallFrame(eA, n1.now).content
    /\ artifacts[n2] = CallFrame(eB, n2.now).content

\* C8: once a KeyboardInterrupt has been delivered, at whatever position of
\* the loop, the program is stopped with exit status 0 after one shutdown
\* notice, and nothing is dispatched, written or launched any more.
C8_InterruptStops ==
  /\ [](interrupted => pc = "Stopped" /\ exit = <<0>> /\ shutdownNotices = 1)
  /\ [](~interrupted => shutdownNotices = 0 /\ pc # "Stopped")
  /\ [][interrupted => UNCHANGED <<processed_logs, dispatched, nWrite, nLaunch,
                                   nNotice, spawns, artifacts>>]_vars

\* C8 witness: the interrupt arrived inside send_to_cursor for eB, after its
\* identity was recorded and before the write was over.
C8_Witness ==
  /\ pc = "Stopped"
  /\ exit = <<0>>
  /\ KeyOf(eB) \in processed_logs
  /\ nWrite[tB] = 0
  /\ dispatched = <<eB>>
  /\ logs = <<eB, eA>>

\* C9: the entries of a read are handed to process_log one by one in the
\* order of the read, the loop sleeps only when all of them have been, each
\* with its identity recorded, and a new read starts only from such a sleep.
C9_AllInOrderBeforeSleep ==
  /\ [](pc = "Dispatching" => i <= Len(logs) + 1 /\ dispatched = SubSeq(logs, 1, i - 1))
  /\ [](pc \in {"Writing", "Launching"} => i <= Len(logs) /\ dispatched = SubSeq(logs, 1, i))
  /\ [](pc = "Sleeping" =>
          /\ dispatched = logs
          /\ \A k \in DOMAIN logs : KeyOf(logs[k]) \in processed_logs)
  /\ [][pc # "Reading" /\ pc' = "Reading"
          => pc = "Idle" \/ (pc = "Sleeping" /\ dispatched = logs)]_vars

\* C9 witness: a cycle over a read of two different entries, the second of
\* them written and launched, has reached its sleep.
C9_Witness ==
  /\ pc = "Sleeping"
  /\ logs = <<eU, eB>>
  /\ dispatched = <<eU, eB>>
  /\ nNotice[tU] = 1
  /\ nLaunch[tB] = 1
  /\ seenBefore = {}

\* C10: the identity set is empty at start and no step removes an identity;
\* dispatching an entry whose identity is recorded leaves the set as it is,
\* dispatching any other entry adds exactly its identity.
C10_IdentitySetMonotone ==
  /\ processed_logs = {}
  /\ [][ /\ processed_logs \subseteq processed_logs'
         /\ (pc = "Dispatching" /\ dispatched' # dispatched)
              => processed_logs' = processed_logs \cup {KeyOf(logs[i])}
         /\ ~(pc = "Dispatching" /\ dispatched' # dispatched)
              => processed_logs' = processed_logs
       ]_vars

\* C10 witness: after a failed write and a failed launch the set holds all
\* three identities, and a cycle of nothing but recorded entries has ended.
C10_Witness ==
  /\ pc = "Sleeping"
  /\ Cardinality(processed_logs) = 3
  /\ failedWrite # {}
  /\ advisories # {}
  /\ Len(dispatched) = 2
  /\ \A k \in DOMAIN dispatched : TripleOf(dispatched[k]) \in seenBefore

\* the content send_to_cursor writes for entry e
ContentOf(e) == CallFrame(e, 0).content

\* C11: a command is spawned only by the launcher, only for an entry whose
\* artifact has just been written in full and that has had no launch yet, and
\* it is the command of the host's family (macOS, Linux, Windows; no command
\* on any other host) followed by the artifact path.  A launch that spawns
\* nothing without an interrupt ends in an advisory naming the artifact path
\* and the loop goes on with the next entry.
C11_LaunchContract ==
  /\ [](\A k \in DOMAIN spawns :
          /\ system = "Darwin" => spawns[k].cmd = <<"open", "-a", "Cursor">>
          /\ system = "Linux" => spawns[k].cmd = <<"code">>
          /\ system = "Windows" => spawns[k].cmd = <<"start", "cursor">>
          /\ system \in {"Darwin", "Linux", "Windows"}
          /\ spawns[k].path \in DOMAIN artifacts)
  /\ [](\A t \in Triples : nLaunch[t] <= 1)
  /\ [][ spawns' # spawns
         => /\ pc = "Launching"
            /\ spawns' = Append(spawns, spawns'[Len(spawns')])
            /\ spawns'[Len(spawns')].path = cur[1].debug_file
            /\ artifacts[cur[1].debug_file] = cur[1].content
            /\ nWrite[TripleOf(cur[1].entry)] = 1
            /\ TripleOf(cur[1].entry) \notin failedWrite
            /\ nLaunch[TripleOf(cur[1].entry)] = 0
            /\ nLaunch'[TripleOf(cur[1].entry)] = 1
       ]_vars
  /\ [][ (pc = "Launching" /\ spawns' = spawns /\ interrupted' = interrupted)
         => /\ advisories' = advisories \cup {cur[1].debug_file}
            /\ pc' = "Dispatching"
            /\ i' = i + 1
            /\ logs' = logs
            /\ exit' = <<>>
       ]_vars

\* C11 witness: on Linux the launch for eA failed and was reported, and eB,
\* the next entry of the same read, was launched with "code" and its artifact.
C11_Witness ==
  /\ pc = "Sleeping"
  /\ system = "Linux"
  /\ dispatched = <<eA, eB>>
  /\ Cardinality(advisories) = 1
  /\ Len(spawns) = 1
  /\ spawns[1].cmd = <<"code">>
  /\ artifacts[spawns[1].path] = ContentOf(eB)
  /\ nLaunch[tA] = 1
  /\ nLaunch[tB] = 1

\* ------------------------------------------------- the filename excerpt

\* characters of the messages tried: a letter, a digit, two separators and a
\* letter outside ASCII
TailChars == {"a", "7", " ", ":", "é"}

\* a message head of n characters, every seventh of them a hyphen
Head50(n) == [k \in 1..n |-> IF k % 7 = 0 THEN "-" ELSE "x"]

\* messages of 0..MaxTail characters, and of 48..50+MaxTail characters, so
\* that the cut at 50 falls before, inside and after the variable tail
Messages ==
  {Head50(n) \o t : n \in {0, ExcerptLen - 2, ExcerptLen - 1, ExcerptLen},
                    t \in SeqsUpTo(TailChars, MaxTail)}

\* an error entry with message m
ErrorWith(m) == [logType |-> sError, message |-> m, timestamp |-> <<"c">>]

\* The first read has returned one error entry, with any of the messages.
InitExcerpt ==
  \E m \in Messages :
    /\ file = [kind |-> "logs", logs |-> <<ErrorWith(m)>>]
    /\ system \in Systems
    /\ pc = "Dispatching"
    /\ logs = <<ErrorWith(m)>>
    /\ i = 1
    /\ diag = "none"
    /\ processed_logs = {}
    /\ artifacts = NoArtifacts
    /\ clock = 0
    /\ usedSec = FALSE
    /\ cur = <<>>
    /\ exit = <<>>
    /\ interrupted = FALSE
    /\ shutdownNotices = 0
    /\ dispatched = <<>>
    /\ nWrite = [t \in {TripleOf(ErrorWith(m))} |-> 0]
    /\ nLaunch = [t \in {TripleOf(ErrorWith(m))} |-> 0]
    /\ nNotice = [t \in {TripleOf(ErrorWith(m))} |-> 0]
    /\ failedWrite = {}
    /\ seenBefore = {}
    /\ spawns = <<>>
    /\ advisories = {}
    /\ argv = <<sScript, sCustom>>
    /\ present = {}
    /\ log_file = <<sCustom>>
    /\ usage = FALSE

\* the entry goes through process_log, send_to_cursor and open_in_cursor
NextExcerpt ==
  \/ process_log
  \/ write_ok
  \/ write_fails
  \/ open_spawns
  \/ open_fails
  \/ open_unsupported
  \/ sleep

SpecExcerpt == InitExcerpt /\ [][NextExcerpt]_vars

\* C12: in every call of send_to_cursor the excerpt of the file name has the
\* length min(50, length of the message); each of its positions holds the
\* character of the message at that position if it is alphanumeric and '_'
\* if it is not.
C12_Excerpt ==
  cur # <<>> =>
    LET m == Extract(cur[1].entry).message
        x == cur[1].debug_file.excerpt
    IN /\ Len(x) = (IF Len(m) <= 50 THEN Len(m) ELSE 50)
       /\ \A k \in 1..Len(x) :
            /\ isalnum(m[k]) => x[k] = m[k]
            /\ ~isalnum(m[k]) => x[k] = "_"

\* C12 witness: a message of 51 characters is being written under an excerpt
\* of 50, which keeps the digit at position 49 and has the filler for the
\* colon at position 50 and for the hyphen at position 7; the letter at
\* position 51 is cut off.
C12_Witness ==
  /\ pc = "Writing"
  /\ Len(Extract(cur[1].entry).message) = 51
  /\ Extract(cur[1].entry).message[51] = "é"
  /\ Extract(cur[1].entry).message[49] = "7"
  /\ Extract(cur[1].entry).message[50] = ":"
  /\ Len(cur[1].debug_file.excerpt) = 50
  /\ cur[1].debug_file.excerpt[49] = "7"
  /\ cur[1].debug_file.excerpt[50] = "_"
  /\ cur[1].debug_file.excerpt[7] = "_"
  /\ cur[1].debug_file.excerpt[1] = "x"

\* ------------------------------------------------------------- start-up

\* potential_paths of find_log_file, in order
potential_paths ==
  <<"Logs/unity_errors.json", "../Logs/unity_errors.json",
    "~/WISP/Logs/unity_errors.json">>

\* the first path of the list that exists, <<>> (None) if none does
RECURSIVE FirstExisting(_, _)
FirstExisting(paths, exists) ==
  IF paths = <<>> THEN <<>>
  ELSE IF Head(paths) \in exists THEN <<Head(paths)>>
  ELSE FirstExisting(Tail(paths), exists)

\* mutant of find_log_file: the loop has no early return, the last path that
\* exists wins
find_log_file_last(exists) ==
  IF potential_paths[3] \in exists THEN <<potential_paths[3]>>
  ELSE IF potential_paths[2] \in exists THEN <<potential_paths[2]>>
  ELSE IF potential_paths[1] \in exists THEN <<potential_paths[1]>>
  ELSE <<>>

find_log_file(exists) == FirstExisting(potential_paths, exists)

\* `not log_file`: None and the empty string are false
Falsy(v) == v = <<>> \/ v = <<"">>

\* the command lines tried: no argument, an empty one, a path, two arguments
Argvs ==
  {<<sScript>>, <<sScript, "">>, <<sScript, sCustom>>,
   <<sScript, sCustom, "Logs/unity_errors.json">>}

\* The interpreter is about to call main().
InitMain ==
  /\ argv \in Argvs
  /\ present \in SUBSET ({potential_paths[k] : k \in 1..3} \cup {sCustom})
  /\ log_file = <<>>
  /\ usage = FALSE
  /\ file = NotRead
  /\ system \in Systems
  /\ pc = "Start"
  /\ logs = <<>>
  /\ i = 1
  /\ diag = "none"
  /\ processed_logs = {}
  /\ artifacts = NoArtifacts
  /\ clock = 0
  /\ usedSec = FALSE
  /\ cur = <<>>
  /\ exit = <<>>
  /\ interrupted = FALSE
  /\ shutdownNotices = 0
  /\ dispatched = <<>>
  /\ nWrite = [t \in Triples |-> 0]
  /\ nLaunch = [t \in Triples |-> 0]
  /\ nNotice = [t \in Triples |-> 0]
  /\ failedWrite = {}
  /\ seenBefore = {}
  /\ spawns = <<>>
  /\ advisories = {}

\* main() up to the call of monitor(): the path is taken from the command
\* line or probed for, then either the usage is printed and the process exits
\* or the monitor is constructed
main ==
  /\ pc = "Start"
  /\ log_file' = IF Len(argv) > 1 THEN <<argv[2]>> ELSE find_log_file(present)
  /\ IF Falsy(log_file')
     THEN /\ usage' = TRUE
          /\ exit' = <<ExitUsage>>
          /\ pc' = "Exited"
     ELSE /\ pc' = "Idle"
          /\ UNCHANGED <<usage, exit>>
  /\ UNCHANGED <<file, system, logs, i, diag, processed_logs, artifacts, clock,
                 usedSec, cur, interrupted, shutdownNotices, dispatched, nWrite,
                 nLaunch, nNotice, failedWrite, seenBefore, spawns, advisories,
                 argv, present>>

NextMain ==
  \/ main
  \/ monitor

SpecMain == InitMain /\ [][NextMain]_vars

\* a start without an argument: the three paths are probed in order and the
\* first that exists is used
ProbedInOrder ==
  Len(argv) = 1 =>
    /\ potential_paths[1] \in present => log_file = <<potential_paths[1]>>
    /\ (potential_paths[1] \notin present /\ potential_paths[2] \in present)
         => log_file = <<potential_paths[2]>>
    /\ ( /\ potential_paths[1] \notin present
         /\ potential_paths[2] \notin present
         /\ potential_paths[3] \in present )
         => log_file = <<potential_paths[3]>>

\* the exit of main: status 1, usage printed, the loop is not entered; and
\* without that exit, no usage and no status
UsageExit ==
  /\ pc = "Exited" => exit = <<1>> /\ usage /\ ~ENABLED monitor
  /\ pc # "Exited" => exit = <<>> /\ ~usage

\* C13: once main has run, an argument given on the command line is the
\* source path, whether it exists or not; a start without an argument uses
\* the first of the three probe paths that exists; the process has exited
\* with status 1 and the usage, the loop not entered, iff no source is
\* specified (no argument, or an empty one) and none is found by probing
\* (which is tried only when there is no argument).
C13_SourceResolution ==
  pc # "Start" =>
    /\ Len(argv) > 1 => log_file = <<argv[2]>>
    /\ (Len(argv) > 1 /\ argv[2] # "") => pc # "Exited"
    /\ ProbedInOrder
    /\ UsageExit
    /\ pc = "Exited" <=>
         \/ Len(argv) = 1 /\ \A k \in 1..3 : potential_paths[k] \notin present
         \/ Len(argv) > 1 /\ argv[2] = ""

\* C13 witness: started without an argument, with the second and the third
\* probe path present, the loop has been entered on the second.
C13_Witness ==
  /\ pc = "Reading"
  /\ argv = <<sScript>>
  /\ present = {potential_paths[2], potential_paths[3]}
  /\ log_file = <<potential_paths[2]>>

\* a step of a cycle whose read yields the empty list: the read itself, the
\* end of the (empty) for loop, and the return from the sleep
EmptyCycleStep ==
  \/ pc = "Reading" /\ pc' = "Dispatching" /\ logs' = <<>>
  \/ pc = "Dispatching" /\ logs = <<>> /\ pc' = "Sleeping"
  \/ pc = "Sleeping" /\ logs = <<>> /\ pc' = "Reading"

\* C14: a cycle whose read yields the empty list (file missing, unreadable,
\* malformed, without entries) dispatches nothing and changes nothing but the
\* position of the loop and the record of what the read found: the identity
\* set, the debug directory, the launches and every counter stay as they are.
\* Every read starts from the same loop state, so the cycle after it starts
\* in exactly the state the empty cycle started in and dispatches what it
\* reads as it would have without the empty cycle.
C14_EmptyCycleLeavesNoTrace ==
  /\ [](pc = "Reading" =>
          /\ file = NotRead /\ diag = "none" /\ logs = <<>> /\ i = 1
          /\ dispatched = <<>> /\ cur = <<>> /\ ~usedSec)
  /\ [](PostRead /\ logs = <<>> =>
          pc \in {"Dispatching", "Sleeping"} /\ dispatched = <<>> /\ i = 1)
  /\ [][ EmptyCycleStep
         => UNCHANGED <<system, logs, i, processed_logs, artifacts, clock,
                        usedSec, cur, exit, interrupted, shutdownNotices,
                        dispatched, nWrite, nLaunch, nNotice, failedWrite,
                        seenBefore, spawns, advisories, startup>>
       ]_vars

\* C14 witness: after a cycle that wrote and launched, a cycle that read a
\* malformed file has reached its sleep with the identities, the artifact
\* and the launch of the earlier cycle in place.
C14_Witness ==
  /\ pc = "Sleeping"
  /\ diag = "parse"
  /\ logs = <<>>
  /\ processed_logs = {KeyOf(eA), KeyOf(eU)}
  /\ DOMAIN artifacts # {}
  /\ \A n \in DOMAIN artifacts : artifacts[n] = ContentOf(eA)
  /\ Len(spawns) = 1
  /\ seenBefore = {tA, tU}

\* the triples whose artifact write was made and did not fail
WrittenOk == {t \in Triples : nWrite[t] = 1 /\ t \notin failedWrite}

\* a successful write is about to replace, or has just replaced, the artifact
\* that entry e1 got in second `now`: e1 has another identity than the entry
\* being written, the same log type and the same excerpt
CollidesWith(e1, now) ==
  /\ cur # <<>>
  /\ now = cur[1].debug_file.now
  /\ KeyOf(e1) # KeyOf(cur[1].entry)
  /\ Extract(e1).log_type = Extract(cur[1].entry).log_type
  /\ safe_message(Extract(e1).message) = safe_message(Extract(cur[1].entry).message)

\* C15: when the write for an entry succeeds in a second in which an entry of
\* another identity, the same log type and the same excerpt got its artifact,
\* that artifact has the name the write targets, the write replaces its
\* content by that of the later entry and adds no file, so that there are
\* fewer files than entries written; the earlier entry has had its launch
\* and the later one goes on to its own, as every entry written does.
C15_LastWriteWins ==
  /\ [][ (pc = "Writing" /\ pc' = "Launching")
         => \A n \in DOMAIN artifacts : \A e1 \in Pool :
              (artifacts[n] = ContentOf(e1) /\ CollidesWith(e1, n.now))
                => /\ n = cur[1].debug_file
                   /\ DOMAIN artifacts' = DOMAIN artifacts
                   /\ artifacts'[n] = ContentOf(cur[1].entry)
                   /\ artifacts'[n] # artifacts[n]
                   /\ Cardinality(DOMAIN artifacts') < Cardinality(WrittenOk')
                   /\ nLaunch[TripleOf(e1)] = 1
                   /\ nLaunch[TripleOf(cur[1].entry)] = 0
       ]_vars
  /\ [](pc \in {"Reading", "Dispatching", "Sleeping"}
          => \A t \in WrittenOk : nLaunch[t] = 1)
  /\ [](pc = "Launching"
          => ENABLED (open_spawns \/ open_fails \/ open_unsupported))

\* C15 witness: eA and eB were written in the same second of one cycle; one
\* artifact exists, it holds the content of eB, and both had their launch.
C15_Witness ==
  /\ pc = "Sleeping"
  /\ dispatched = <<eA, eB>>
  /\ WrittenOk = {tA, tB}
  /\ Cardinality(DOMAIN artifacts) = 1
  /\ \A n \in DOMAIN artifacts : artifacts[n] = ContentOf(eB)
  /\ nLaunch[tA] = 1
  /\ nLaunch[tB] = 1

\* the entries handed to process_log before position k of this cycle
Earlier(k) == {dispatched[j] : j \in 1..(k - 1)}

\* C16: entries with different (logType, message, timestamp) have different
\* identity keys, so that at the end of a cycle every error-like entry of it
\* whose triple is not that of any entry dispatched before it (in this cycle
\* or an earlier one) has had its artifact write.
C16_KeySeparatesTriples ==
  pc = "Sleeping" =>
    \A k \in DOMAIN dispatched :
      ( /\ IsActionable(Extract(dispatched[k]).log_type)
        /\ TripleOf(dispatched[k]) \notin seenBefore
        /\ \A e \in Earlier(k) : TripleOf(e) # TripleOf(dispatched[k]) )
        => /\ \A e \in Earlier(k) : KeyOf(e) # KeyOf(dispatched[k])
           /\ nWrite[TripleOf(dispatched[k])] = 1

\* the identity keys of all entries handed to process_log so far: those of
\* earlier cycles and those of the cycle in progress
KeysDispatched ==
  {log_id(t[1], t[2], t[3]) : t \in seenBefore}
    \cup {KeyOf(dispatched[k]) : k \in DOMAIN dispatched}

\* C17: at every position of the loop, between two entries in particular,
\* the identity set is exactly the set of keys of the entries dispatched so
\* far, whatever became of them; the identity of an entry is in the set when
\* its write is about to be attempted and when its launch is.
C17_SetIsKeysDispatched ==
  /\ processed_logs = KeysDispatched
  /\ pc = "Writing" =>
       /\ KeyOf(cur[1].entry) \in processed_logs
       /\ nWrite[TripleOf(cur[1].entry)] = 0
       /\ nLaunch[TripleOf(cur[1].entry)] = 0
  /\ pc = "Launching" =>
       /\ KeyOf(cur[1].entry) \in processed_logs
       /\ nLaunch[TripleOf(cur[1].entry)] = 0

\* C17 witness: between the second and the third cycle the set holds the
\* keys of an informational entry, of an entry whose write failed and of an
\* entry whose launch failed.
C17_Witness ==
  /\ pc = "Sleeping"
  /\ seenBefore # {}
  /\ processed_logs = {KeyOf(eU), KeyOf(eA), KeyOf(eB)}
  /\ nNotice[tU] = 1
  /\ tA \in failedWrite
  /\ nLaunch[tB] = 1
  /\ advisories # {}
  /\ spawns = <<>>
  /\ system = "Linux"

\* C18: no informational notice is printed twice for the same triple, and at
\* the end of a cycle every informational entry of its read has had its
\* notice: in this cycle if it is the first that read it, in that first
\* cycle otherwise.
C18_NoticeOncePerEntry ==
  /\ \A t \in Triples : nNotice[t] <= 1
  /\ pc = "Sleeping" =>
       \A k \in DOMAIN dispatched :
         ~IsActionable(Extract(dispatched[k]).log_type)
           => nNotice[TripleOf(dispatched[k])] = 1

====
